---- MODULE Spec2Model ----
(***************************************************************************)
(* Model of Package-Chat: ingest.py (file classification, chunking,        *)
(* ingestion into a per-package Chroma index), retriever.py (index         *)
(* selection), conversation.py (bounded history) and rag_bot.py (the CLI   *)
(* session).  Python strings are sequences of one-character strings.       *)
(***************************************************************************)
EXTENDS Integers, Sequences, FiniteSets, TLC

VARIABLES
    \* a call of chunk_text: its arguments, its result, whether it returned
    text, max_length, chunks, chunked,
    \* a call of collect_text_files: the root, the files under it in rglob
    \* order, its result, whether it returned
    root_dir, tree, files, collected,
    \* the working directory: the .chroma_* directories, the documents of the
    \* "docs" collection in each, and the order in which they were last modified
    disk, index, mtime,
    \* the rag_bot process: where main() is, and its package argument
    pc, package,
    \* the last call of ingest_and_index_package and the identifiers whose
    \* ingestion has returned normally
    call, succeeded,
    \* the last call of retrieve_relevant_chunks of the running session
    retrieved,
    \* the ConversationManager, and every message ever passed to add_message
    max_history, history, appended

chunkVars == <<text, max_length, chunks, chunked>>
classifyVars == <<root_dir, tree, files, collected>>
storeVars == <<disk, index, mtime>>
botVars == <<pc, package, call, succeeded, retrieved>>
convVars == <<max_history, history, appended>>
vars == <<chunkVars, classifyVars, storeVars, botVars, convVars>>

\* ---------------------------------------------------------------- bounds
MaxTextLen == 5
MaxMaxLength == 3

\* ------------------------------------------------------ Python str helpers
NL == "\n"

IsPrefix(p, s) == Len(p) <= Len(s) /\ SubSeq(s, 1, Len(p)) = p

RECURSIVE SplitAcc(_, _, _)
SplitAcc(s, sep, cur) ==
    IF s = <<>> THEN <<cur>>
    ELSE IF IsPrefix(sep, s)
         THEN <<cur>> \o SplitAcc(SubSeq(s, Len(sep) + 1, Len(s)), sep, <<>>)
         ELSE SplitAcc(Tail(s), sep, Append(cur, Head(s)))

\* str.split(sep) with a non-empty separator
Split(s, sep) == SplitAcc(s, sep, <<>>)

RECURSIVE Join(_, _)
\* sep.join(parts)
Join(parts, sep) ==
    IF parts = <<>> THEN <<>>
    ELSE IF Len(parts) = 1 THEN parts[1]
    ELSE parts[1] \o sep \o Join(Tail(parts), sep)

RECURSIVE Replace(_, _, _)
\* str.replace(old, new) with a non-empty old: leftmost, non-overlapping
Replace(s, old, new) ==
    IF s = <<>> THEN <<>>
    ELSE IF IsPrefix(old, s)
         THEN new \o Replace(SubSeq(s, Len(old) + 1, Len(s)), old, new)
         ELSE <<Head(s)>> \o Replace(Tail(s), old, new)

RECURSIVE LStrip(_, _)
LStrip(s, cs) ==
    IF s # <<>> /\ Head(s) \in cs THEN LStrip(Tail(s), cs) ELSE s

RECURSIVE RStrip(_, _)
RStrip(s, cs) ==
    IF s # <<>> /\ s[Len(s)] \in cs THEN RStrip(SubSeq(s, 1, Len(s) - 1), cs) ELSE s

\* str.strip(chars)
Strip(s, cs) == RStrip(LStrip(s, cs), cs)

UpperCase == <<"A", "B", "C", "D", "E", "F", "G", "H", "I", "J", "K", "L", "M", "N", "O", "P", "Q", "R", "S", "T", "U", "V", "W", "X", "Y", "Z">>

LowerCase == <<"a", "b", "c", "d", "e", "f", "g", "h", "i", "j", "k", "l", "m", "n", "o", "p", "q", "r", "s", "t", "u", "v", "w", "x", "y", "z">>

LowerChar(c) ==
    IF \E i \in 1..26 : UpperCase[i] = c
    THEN LowerCase[CHOOSE i \in 1..26 : UpperCase[i] = c]
    ELSE c

\* str.lower()
Lower(s) == [i \in 1..Len(s) |-> LowerChar(s[i])]

\* the largest index of c in s, 0 when absent (str.rfind + 1)
RFind(s, c) ==
    IF \E i \in 1..Len(s) : s[i] = c
    THEN CHOOSE i \in 1..Len(s) : s[i] = c /\ \A j \in (i + 1)..Len(s) : s[j] # c
    ELSE 0

\* pathlib: PurePath.name
PathName(parts) == parts[Len(parts)]

\* pathlib: PurePath.suffix, the last dot and what follows it unless the dot
\* is the first or the last character of the name
PathSuffix(parts) ==
    LET name == PathName(parts)
        i == RFind(name, ".")
    IN IF 1 < i /\ i < Len(name) THEN SubSeq(name, i, Len(name)) ELSE <<>>

\* str(path)
PathStr(parts) ==
    IF parts # <<>> /\ parts[1] = <<"/">>
    THEN <<"/">> \o Join(Tail(parts), <<"/">>)
    ELSE Join(parts, <<"/">>)

\* --------------------------------------------------------------- chunk_text
EmptyChunker == [chunks |-> <<>>, current_chunk |-> <<>>, current_length |-> 0]

\* the flush at lines 268-270 and 276-278
Flush(st) ==
    [chunks |-> Append(st.chunks, Join(st.current_chunk, <<NL>>)),
     current_chunk |-> <<>>, current_length |-> 0]

\* one iteration of the line loop, lines 266-272
AddLine(st, line, maxlen) ==
    LET s == IF st.current_length + Len(line) > maxlen /\ st.current_chunk # <<>>
             THEN Flush(st) ELSE st
    IN [s EXCEPT !.current_chunk = Append(@, line),
                 !.current_length = @ + Len(line) + 1]

RECURSIVE AddLines(_, _, _)
AddLines(st, lines, maxlen) ==
    IF lines = <<>> THEN st
    ELSE AddLines(AddLine(st, Head(lines), maxlen), Tail(lines), maxlen)

\* the else branch of the section loop, lines 273-280
AddShortSection(st, section, maxlen) ==
    LET s == IF st.current_length + Len(section) > maxlen /\ st.current_chunk # <<>>
             THEN Flush(st) ELSE st
    IN [s EXCEPT !.current_chunk = Append(@, section),
                 !.current_length = @ + Len(section) + 2]

\* mutant: an overlong section is kept whole instead of being split into lines
AddSectionUnsplit(st, section, maxlen) == AddShortSection(st, section, maxlen)

\* one iteration of the section loop, lines 262-280
AddSection(st, section, maxlen) ==
    IF Len(section) > maxlen
    THEN AddLines(st, Split(section, <<NL>>), maxlen)
    ELSE AddShortSection(st, section, maxlen)

RECURSIVE AddSections(_, _, _)
AddSections(st, sections, maxlen) ==
    IF sections = <<>> THEN st
    ELSE AddSections(AddSection(st, Head(sections), maxlen), Tail(sections), maxlen)

\* chunk_text(text, max_length), lines 254-286
chunk_text(t, maxlen) ==
    LET st == AddSections(EmptyChunker, Split(t, <<NL, NL>>), maxlen)
    IN IF st.current_chunk # <<>>
       THEN Append(st.chunks, Join(st.current_chunk, <<NL>>))
       ELSE st.chunks

\* ------------------------------------------------------- file classification
\* PYTHON_EXTENSIONS, in source order; a dict literal keeps the last value
\* given for a repeated key
PYTHON_EXTENSIONS ==
    << <<<<".", "p", "y">>, "python">>,
       <<<<".", "m", "d">>, "markdown">>,
       <<<<".", "r", "s", "t">>, "restructuredtext">>,
       <<<<".", "t", "x", "t">>, "text">>,
       <<<<".", "p", "y", "i">>, "python-stub">>,
       <<<<"p", "y", ".", "t", "y", "p", "e", "d">>, "python-typed">>,
       <<<<"p", "y", "p", "r", "o", "j", "e", "c", "t", ".", "t", "o", "m", "l">>, "python-config">>,
       <<<<"s", "e", "t", "u", "p", ".", "p", "y">>, "python-config">>,
       <<<<"s", "e", "t", "u", "p", ".", "c", "f", "g">>, "python-config">>,
       <<<<"r", "e", "q", "u", "i", "r", "e", "m", "e", "n", "t", "s", ".", "t", "x", "t">>, "python-deps">>,
       <<<<"r", "e", "q", "u", "i", "r", "e", "m", "e", "n", "t", "s", "-", "d", "e", "v", ".", "t", "x", "t">>, "python-deps">>,
       <<<<"r", "e", "q", "u", "i", "r", "e", "m", "e", "n", "t", "s", "-", "t", "e", "s", "t", ".", "t", "x", "t">>, "python-deps">>,
       <<<<"M", "A", "N", "I", "F", "E", "S", "T", ".", "i", "n">>, "python-config">>,
       <<<<".", "p", "y", "i">>, "python-stub">>,
       <<<<"R", "E", "A", "D", "M", "E", ".", "m", "d">>, "documentation">>,
       <<<<"R", "E", "A", "D", "M", "E", ".", "r", "s", "t">>, "documentation">>,
       <<<<"C", "H", "A", "N", "G", "E", "L", "O", "G", ".", "m", "d">>, "documentation">>,
       <<<<"C", "H", "A", "N", "G", "E", "L", "O", "G", ".", "r", "s", "t">>, "documentation">>,
       <<<<"L", "I", "C", "E", "N", "S", "E">>, "documentation">>,
       <<<<"A", "U", "T", "H", "O", "R", "S">>, "documentation">>,
       <<<<"C", "O", "N", "T", "R", "I", "B", "U", "T", "I", "N", "G", ".", "m", "d">>, "documentation">>,
       <<<<"C", "O", "N", "T", "R", "I", "B", "U", "T", "I", "N", "G", ".", "r", "s", "t">>, "documentation">> >>

\* key in PYTHON_EXTENSIONS
InExtensions(key) ==
    \E i \in 1..Len(PYTHON_EXTENSIONS) : PYTHON_EXTENSIONS[i][1] = key

\* PYTHON_EXTENSIONS.get(key, default)
ExtensionsGet(key, default) ==
    IF InExtensions(key)
    THEN LET i == CHOOSE i \in 1..Len(PYTHON_EXTENSIONS) :
                      /\ PYTHON_EXTENSIONS[i][1] = key
                      /\ \A j \in (i + 1)..Len(PYTHON_EXTENSIONS) :
                             PYTHON_EXTENSIONS[j][1] # key
         IN PYTHON_EXTENSIONS[i][2]
    ELSE default

IGNORE_DIRS ==
    { <<".", "g", "i", "t">>, <<"_", "_", "p", "y", "c", "a", "c", "h", "e", "_", "_">>, <<"v", "e", "n", "v">>, <<".", "v", "e", "n", "v">>, <<"e", "n", "v">>, <<".", "e", "n", "v">>,
      <<"b", "u", "i", "l", "d">>, <<"d", "i", "s", "t">>, <<"t", "a", "r", "g", "e", "t">>, <<".", "p", "y", "t", "e", "s", "t", "_", "c", "a", "c", "h", "e">>, <<".", "m", "y", "p", "y", "_", "c", "a", "c", "h", "e">>,
      <<".", "r", "u", "f", "f", "_", "c", "a", "c", "h", "e">>, <<".", "c", "o", "v", "e", "r", "a", "g", "e">>, <<"h", "t", "m", "l", "c", "o", "v">>, <<"s", "i", "t", "e", "-", "p", "a", "c", "k", "a", "g", "e", "s">>,
      <<"n", "o", "d", "e", "_", "m", "o", "d", "u", "l", "e", "s">>, <<".", "t", "o", "x">>, <<".", "e", "g", "g", "s">>, <<"*", ".", "e", "g", "g", "-", "i", "n", "f", "o">>, <<"*", ".", "e", "g", "g">>,
      <<"d", "o", "c", "s">>, <<"d", "o", "c">>, <<"d", "o", "c", "u", "m", "e", "n", "t", "a", "t", "i", "o", "n">>, <<"e", "x", "a", "m", "p", "l", "e", "s">>, <<"e", "x", "a", "m", "p", "l", "e">> }

IGNORE_PATTERNS ==
    { <<"*", "d", "o", "c", "s", "*">>, <<"*", "d", "o", "c", "*">>, <<"*", "d", "o", "c", "u", "m", "e", "n", "t", "a", "t", "i", "o", "n", "*">>, <<"*", "e", "x", "a", "m", "p", "l", "e", "*">>, <<"*", "e", "x", "a", "m", "p", "l", "e", "s", "*">> }

\* the loop over file_path.parts, lines 159-169
InIgnoredPart(parts) ==
    \E i \in 1..Len(parts) :
        \/ parts[i] \in IGNORE_DIRS
        \/ \E pattern \in IGNORE_PATTERNS :
               IsPrefix(Replace(pattern, <<"*">>, <<>>), Lower(parts[i]))

\* should_process_file(file_path), lines 156-175
should_process_file(parts) ==
    /\ ~InIgnoredPart(parts)
    /\ \/ InExtensions(Lower(PathSuffix(parts)))
       \/ InExtensions(PathName(parts))

\* the file type lookup, lines 209-212
FileType(parts) ==
    ExtensionsGet(Lower(PathSuffix(parts)), ExtensionsGet(PathName(parts), "unknown"))

\* the entry appended at lines 215-222
FileInfo(root, f) ==
    [path |-> PathStr(root \o f.rel),
     content |-> f.content,
     type |-> FileType(root \o f.rel),
     relative_path |-> PathStr(f.rel)]

RECURSIVE CollectFrom(_, _)
\* the walk of lines 191-230 over the files rglob yields, in its order; a file
\* whose read raises is skipped (lines 223-228); latin-1 decodes any bytes, so
\* the decoding loop never runs out of encodings
CollectFrom(root, entries) ==
    IF entries = <<>> THEN <<>>
    ELSE LET f == Head(entries)
             rest == CollectFrom(root, Tail(entries))
         IN IF should_process_file(root \o f.rel) /\ f.readable
            THEN <<FileInfo(root, f)>> \o rest
            ELSE rest

\* collect_text_files(root_dir), lines 178-251
collect_text_files(root, entries) == CollectFrom(root, entries)

\* ---------------------------------------------------- chunker specification
Chars == {"a", "b", NL}

Texts == UNION {[1..n -> Chars] : n \in 0..MaxTextLen}

ClassifyIdle ==
    /\ root_dir = <<>>
    /\ tree = <<>>
    /\ files = <<>>
    /\ collected = FALSE

NoCall ==
    [identifier |-> <<>>, existed |-> FALSE, prior_success |-> FALSE,
     fetched |-> FALSE, n_files |-> 0, result |-> "none", steps |-> <<>>,
     before |-> <<>>]

NoRetrieval == [asked |-> FALSE, db_dir |-> <<>>, documents |-> <<>>]

StoreEmpty ==
    /\ disk = {}
    /\ index = <<>>
    /\ mtime = <<>>

BotIdle ==
    /\ pc = "idle"
    /\ package = <<>>
    /\ call = NoCall
    /\ succeeded = {}
    /\ retrieved = NoRetrieval

ConvIdle ==
    /\ max_history = 10
    /\ history = <<>>
    /\ appended = <<>>

InitChunk ==
    /\ text \in Texts
    /\ max_length \in 1..MaxMaxLength
    /\ chunks = <<>>
    /\ chunked = FALSE
    /\ ClassifyIdle
    /\ StoreEmpty
    /\ BotIdle
    /\ ConvIdle

CallChunkText ==
    /\ ~chunked
    /\ chunks' = chunk_text(text, max_length)
    /\ chunked' = TRUE
    /\ UNCHANGED <<text, max_length, classifyVars, storeVars, botVars, convVars>>

NextChunk == CallChunkText

SpecChunk == InitChunk /\ [][NextChunk]_vars

\* ------------------------------------------------------------ chunker claims
ChunkIndices == 1..Len(chunks)

Separators == {<<NL>>, <<NL, NL>>}

RECURSIVE Interleave(_, _)
\* parts[1] seps[1] parts[2] seps[2] ... parts[n]
Interleave(parts, seps) ==
    IF parts = <<>> THEN <<>>
    ELSE IF Len(parts) = 1 THEN parts[1]
    ELSE parts[1] \o seps[1] \o Interleave(Tail(parts), Tail(seps))

\* C4: for every non-empty text and max_length >= 1 the chunks, taken in
\* emission order with a single-line or blank-line break put back between
\* consecutive chunks and their contents untouched, concatenate to the input.
ChunkRoundTrip ==
    (chunked /\ text # <<>>) =>
        \E seps \in [1..(Len(chunks) - 1) -> Separators] :
            Interleave(chunks, seps) = text

\* C5: chunk_text never returns an empty chunk, and returns the empty
\* sequence for the empty text.
NoEmptyChunk ==
    chunked =>
        /\ \A i \in ChunkIndices : Len(chunks[i]) >= 1
        /\ (text = <<>> => chunks = <<>>)

InputLines == Split(text, <<NL>>)

IsInputLine(c) == \E k \in 1..Len(InputLines) : InputLines[k] = c

HasNewline(c) == \E k \in 1..Len(c) : c[k] = NL

\* C6: every chunk is at most max_length long, or is exactly one line of the
\* input that is itself longer than max_length, emitted whole and alone; and
\* no such overlong line is dropped.
SoftLimitOnlyForOneLine ==
    chunked =>
        /\ \A i \in ChunkIndices :
              \/ Len(chunks[i]) <= max_length
              \/ (~HasNewline(chunks[i]) /\ IsInputLine(chunks[i]))
        /\ \A k \in 1..Len(InputLines) :
              Len(InputLines[k]) > max_length =>
                  \E i \in ChunkIndices : chunks[i] = InputLines[k]

\* a call returned an oversized chunk next to other chunks
OversizedChunkEmitted ==
    /\ chunked
    /\ Len(chunks) >= 2
    /\ \E i \in ChunkIndices : Len(chunks[i]) > max_length

\* -------------------------------------------------- classifier specification
MaxFiles == 2

File(rel, content, readable) == [rel |-> rel, content |-> content, readable |-> readable]

Catalog ==
    { File(<<<<"a", "p", "p", ".", "p", "y">>>>, <<"a">>, TRUE),
      File(<<<<"a", "p", "p", ".", "p", "y">>>>, <<"a">>, FALSE),
      File(<<<<"d", "o", "c", "s", ".", "p", "y">>>>, <<"a">>, TRUE),
      File(<<<<"s", "e", "t", "u", "p", ".", "p", "y">>>>, <<"a">>, TRUE),
      File(<<<<"R", "E", "A", "D", "M", "E", ".", "m", "d">>>>, <<"a">>, TRUE),
      File(<<<<"L", "I", "C", "E", "N", "S", "E">>>>, <<"a">>, TRUE),
      File(<<<<"N", "O", "T", "E", "S", ".", "T", "X", "T">>>>, <<"a">>, TRUE),
      File(<<<<"p", "h", "o", "t", "o", ".", "j", "p", "g">>>>, <<"a">>, TRUE),
      File(<<<<"s", "r", "c">>, <<"a", "p", "p", ".", "p", "y">>>>, <<"a">>, TRUE),
      File(<<<<"d", "o", "c", "s">>, <<"g", "u", "i", "d", "e", ".", "m", "d">>>>, <<"a">>, TRUE),
      File(<<<<"n", "o", "d", "e", "_", "m", "o", "d", "u", "l", "e", "s">>, <<"x", ".", "p", "y">>>>, <<"a">>, TRUE) }

Roots ==
    { <<<<"/">>, <<"t", "m", "p">>, <<"t", "m", "p", "a", "b", "1", "2">>, <<"p", "k", "g", "-", "1", ".", "0">>>>,
      <<<<"/">>, <<"t", "m", "p">>, <<"t", "m", "p", "a", "b", "1", "2">>>>,
      <<<<"/">>, <<"t", "m", "p">>, <<"t", "m", "p", "a", "b", "1", "2">>, <<"d", "o", "c", "k", "e", "r", "-", "7", ".", "1", ".", "0">>>> }

\* the files of a tree, in enumeration order, no path twice
TreesOver(catalog, n) ==
    UNION { { t \in [1..k -> catalog] :
                \A i, j \in 1..k : i # j => t[i].rel # t[j].rel } : k \in 0..n }

ChunkIdle ==
    /\ text = <<>>
    /\ max_length = 1
    /\ chunks = <<>>
    /\ chunked = FALSE

InitClassify ==
    /\ root_dir \in Roots
    /\ tree \in TreesOver(Catalog, MaxFiles)
    /\ files = <<>>
    /\ collected = FALSE
    /\ ChunkIdle
    /\ StoreEmpty
    /\ BotIdle
    /\ ConvIdle

CallCollectTextFiles ==
    /\ ~collected
    /\ files' = collect_text_files(root_dir, tree)
    /\ collected' = TRUE
    /\ UNCHANGED <<root_dir, tree, chunkVars, storeVars, botVars, convVars>>

NextClassify == CallCollectTextFiles

SpecClassify == InitClassify /\ [][NextClassify]_vars

\* ---------------------------------------------------------- classifier claims
EndsWith(s, e) == Len(e) <= Len(s) /\ SubSeq(s, Len(s) - Len(e) + 1, Len(s)) = e

Included(f, type) ==
    \E i \in 1..Len(files) :
        /\ files[i].relative_path = PathStr(f.rel)
        /\ files[i].type = type

\* C7: every readable file directly in the root whose name ends in .py is in
\* the classification of the root, tagged "python", whatever its own name
\* and whatever the components of the root's path.
TopLevelPyIncluded ==
    collected =>
        \A i \in 1..Len(tree) :
            (Len(tree[i].rel) = 1 /\ EndsWith(tree[i].rel[1], <<".", "p", "y">>) /\ tree[i].readable)
                => Included(tree[i], "python")

\* C8: a readable file named README.md on a path with no ignored component
\* is in the classification, tagged "documentation".
ReadmeIsDocumentation ==
    collected =>
        \A i \in 1..Len(tree) :
            (/\ PathName(tree[i].rel) = <<"R", "E", "A", "D", "M", "E", ".", "m", "d">>
             /\ tree[i].readable
             /\ ~InIgnoredPart(root_dir \o tree[i].rel))
                => Included(tree[i], "documentation")

Min(a, b) == IF a <= b THEN a ELSE b

\* ------------------------------------------------------ ConversationManager
\* seq[start:] for a Python index start, negative counting from the end
PySliceFrom(s, start) ==
    LET from == IF start < 0
                THEN (IF Len(s) + start < 0 THEN 0 ELSE Len(s) + start)
                ELSE (IF start > Len(s) THEN Len(s) ELSE start)
    IN SubSeq(s, from + 1, Len(s))

\* the history after add_message(role, content), conversation.py lines 31-35
add_message(hist, maxhist, msg) ==
    LET h == Append(hist, msg)
    IN IF Len(h) > maxhist * 2 THEN PySliceFrom(h, -(maxhist * 2)) ELSE h

\* ------------------------------------------------ conversation specification
MaxN == 2
MaxMessages == 5

Roles == {"user", "assistant"}

Contents == {"q", "r"}

InitConv ==
    /\ max_history \in 0..MaxN
    /\ history = <<>>
    /\ appended = <<>>
    /\ ChunkIdle
    /\ ClassifyIdle
    /\ StoreEmpty
    /\ BotIdle

AddMessage ==
    /\ Len(appended) < MaxMessages
    /\ \E role \in Roles, content \in Contents :
          LET msg == [role |-> role, content |-> content]
          IN /\ history' = add_message(history, max_history, msg)
             /\ appended' = Append(appended, msg)
    /\ UNCHANGED <<max_history, chunkVars, classifyVars, storeVars, botVars>>

NextConv == AddMessage

SpecConv == InitConv /\ [][NextConv]_vars

\* ---------------------------------------------------------- conversation claim
LastN(s, n) == SubSeq(s, Len(s) - n + 1, Len(s))

\* C9: for every max_history N >= 0 and after any sequence of add_message
\* calls, history holds at most 2*N messages and is exactly the most recent
\* min(total appended, 2*N) messages in their original order.
HistoryBounded ==
    /\ Len(history) <= 2 * max_history
    /\ history = LastN(appended, Min(Len(appended), 2 * max_history))

\* ---------------------------------------------------------------- ingestion
\* the default of chunk_text's max_length
DefaultMaxLength == 1000

\* the default of retrieve_relevant_chunks' k
DefaultK == 5

Last(s) == s[Len(s)]

Range(s) == {s[i] : i \in 1..Len(s)}

\* identifier, line 291
Identifier(arg) == Replace(Last(Split(arg, <<"/">>)), <<".", "g", "i", "t">>, <<>>)

\* db_dir, line 292
DbDir(identifier) == <<".", "c", "h", "r", "o", "m", "a", "_">> \o identifier

\* mutant: the existence check never finds the directory
AlreadyIndexedNever(db_dir) == FALSE

\* os.path.exists(db_dir), line 293
AlreadyIndexed(db_dir) == db_dir \in disk

\* mutant: an empty file list is not an error
NoFilesIgnored(fs) == FALSE

\* not files, line 301
NoFiles(fs) == fs = <<>>

WordChars == Range(UpperCase) \cup Range(LowerCase) \cup Range(<<"0", "1", "2", "3", "4", "5", "6", "7", "8", "9", "_", "-">>)

\* re.match(r"https?://github\.com/[\w-]+/[\w-]+", arg), line 101
MatchesRepoUrl(arg) ==
    \E prefix \in {<<"h", "t", "t", "p", "s", ":", "/", "/", "g", "i", "t", "h", "u", "b", ".", "c", "o", "m", "/">>, <<"h", "t", "t", "p", ":", "/", "/", "g", "i", "t", "h", "u", "b", ".", "c", "o", "m", "/">>} :
        /\ IsPrefix(prefix, arg)
        /\ LET segs == Split(SubSeq(arg, Len(prefix) + 1, Len(arg)), <<"/">>)
           IN /\ Len(segs) >= 2
              /\ segs[1] # <<>>
              /\ Range(segs[1]) \subseteq WordChars
              /\ segs[2] # <<>>
              /\ segs[2][1] \in WordChars

\* the scratch directory of tempfile.TemporaryDirectory(), line 297
TmpDir == <<<<"/">>, <<"t", "m", "p">>, <<"t", "m", "p", "a", "b", "1", "2">>>>

RECURSIVE TopDirs(_, _)
\* the directories directly under dest_dir, in iterdir order
TopDirs(entries, seen) ==
    IF entries = <<>> THEN <<>>
    ELSE LET rel == Head(entries).rel
         IN IF Len(rel) >= 2 /\ rel[1] \notin seen
            THEN <<rel[1]>> \o TopDirs(Tail(entries), seen \cup {rel[1]})
            ELSE TopDirs(Tail(entries), seen)

\* any(item.rglob("*.py")), line 145
HasPy(entries, dir) ==
    \E i \in 1..Len(entries) :
        /\ Len(entries[i].rel) >= 2
        /\ entries[i].rel[1] = dir
        /\ EndsWith(Last(entries[i].rel), <<".", "p", "y">>)

MinOf(S) == CHOOSE m \in S : \A x \in S : m <= x

\* the package directory below dest_dir, lines 131-153: <<>> is dest_dir itself
PackageDir(arg, entries) ==
    LET dirs == TopDirs(entries, {})
        named == {i \in 1..Len(dirs) : Lower(dirs[i]) = Lower(arg)}
        with_py == {i \in 1..Len(dirs) : HasPy(entries, dirs[i])}
    IN IF named # {} THEN <<dirs[MinOf(named)]>>
       ELSE IF with_py # {} THEN <<dirs[MinOf(with_py)]>>
       ELSE <<>>

\* the root download_and_extract_package returns, lines 99-153, once the clone
\* or the download and extraction have put entries below dest_dir
download_and_extract_package(arg, dest_dir, entries) ==
    IF MatchesRepoUrl(arg) THEN dest_dir ELSE dest_dir \o PackageDir(arg, entries)

RECURSIVE Under(_, _)
\* the files below dest_dir/prefix, their paths relative to it
Under(prefix, entries) ==
    IF entries = <<>> THEN <<>>
    ELSE LET f == Head(entries)
             rest == Under(prefix, Tail(entries))
         IN IF Len(f.rel) > Len(prefix) /\ IsPrefix(prefix, f.rel)
            THEN <<[f EXCEPT !.rel = SubSeq(f.rel, Len(prefix) + 1, Len(f.rel))]>> \o rest
            ELSE rest

RECURSIVE Documents(_)
\* docs and metadatas, lines 319-328, one entry per chunk in file order
Documents(fs) ==
    IF fs = <<>> THEN <<>>
    ELSE LET file_info == Head(fs)
             cs == chunk_text(file_info.content, DefaultMaxLength)
         IN [i \in 1..Len(cs) |->
                [document |-> cs[i],
                 metadata |-> [source |-> file_info.relative_path,
                               type |-> file_info.type,
                               full_path |-> file_info.path]]]
            \o Documents(Tail(fs))

\* the collection after collection.add, lines 343-345: ids 0..N-1
WithIds(docs) ==
    [i \in 1..Len(docs) |->
        [id |-> i - 1, document |-> docs[i].document, metadata |-> docs[i].metadata]]

MaxOf(S) == IF S = {} THEN 0 ELSE CHOOSE m \in S : \A x \in S : x <= m

\* the modification stamp a directory gets when it is created
NextStamp == 1 + MaxOf({mtime[d] : d \in disk})

\* the working directory once PersistentClient(path=db_dir) and
\* get_or_create_collection have run, lines 334-342, with entries in "docs":
\* the client makes the directory when it is constructed, before anything is
\* added, and a collection.add that raises stores nothing
CreateIndex(db_dir, entries) ==
    /\ disk' = disk \cup {db_dir}
    /\ index' = [d \in disk \cup {db_dir} |-> IF d = db_dir THEN entries ELSE index[d]]
    /\ mtime' = [d \in disk \cup {db_dir} |-> IF d = db_dir THEN NextStamp ELSE mtime[d]]

\* ---------------------------------------------------------------- retrieval
\* get_latest_package_name(), retriever.py lines 10-14; <<>> stands for the raise
get_latest_package_name ==
    IF disk = {} THEN <<>>
    ELSE LET latest == CHOOSE d \in disk : \A e \in disk : mtime[e] <= mtime[d]
         IN <<Strip(Replace(latest \o <<"/">>, <<".", "c", "h", "r", "o", "m", "a", "_">>, <<>>), {"/", "\\"})>>

\* ------------------------------------------------------------- the CLI session
Packages == {<<"p", "a">>, <<"p", "b">>, <<"h", "t", "t", "p", "s", ":", "/", "/", "g", "i", "t", "h", "u", "b", ".", "c", "o", "m", "/", "u", "/", "p", "a", ".", "g", "i", "t">>}

TreeSdist ==
    << File(<<<<"p", "a", "-", "1", ".", "0", ".", "t", "a", "r", ".", "g", "z">>>>, <<"z">>, TRUE),
       File(<<<<"p", "a", "-", "1", ".", "0">>, <<"p", "a">>, <<"a", "p", "p", ".", "p", "y">>>>, <<"a", "\n", "\n", "b">>, TRUE),
       File(<<<<"p", "a", "-", "1", ".", "0">>, <<"R", "E", "A", "D", "M", "E", ".", "m", "d">>>>, <<>>, TRUE) >>

TreeImages ==
    << File(<<<<"p", "b", "-", "2", ".", "0", ".", "z", "i", "p">>>>, <<"z">>, TRUE),
       File(<<<<"p", "b", "-", "2", ".", "0">>, <<"p", "h", "o", "t", "o", ".", "j", "p", "g">>>>, <<"j">>, TRUE) >>

TreeFlat ==
    << File(<<<<"a", "p", "p", ".", "p", "y">>>>, <<"a", "\n", "b">>, TRUE),
       File(<<<<"L", "I", "C", "E", "N", "S", "E">>>>, <<"l">>, TRUE) >>

TreeNamed ==
    << File(<<<<"l", "i", "b">>, <<"y", ".", "p", "y">>>>, <<"y">>, TRUE),
       File(<<<<"P", "B">>, <<"x", ".", "p", "y">>>>, <<"x">>, FALSE),
       File(<<<<"P", "B">>, <<"s", "e", "t", "u", "p", ".", "c", "f", "g">>>>, <<"c">>, TRUE) >>

\* what the clone or the download puts in the scratch directory, or a failure
Worlds ==
    {[ok |-> FALSE, entries |-> <<>>]}
        \cup {[ok |-> TRUE, entries |-> t] : t \in {TreeSdist, TreeImages, TreeFlat, TreeNamed}}

Init ==
    /\ StoreEmpty
    /\ BotIdle
    /\ ConvIdle
    /\ ChunkIdle
    /\ ClassifyIdle

\* main() up to the call of ingest_and_index_package, rag_bot.py lines 15-40;
\* without an API key it exits, lines 24-29
RunMain ==
    /\ pc = "idle"
    /\ \E arg \in Packages, api_key \in BOOLEAN, env_max_history \in 0..MaxN :
          IF ~api_key
          THEN UNCHANGED <<botVars, convVars>>
          ELSE /\ pc' = "ingest"
               /\ package' = arg
               /\ retrieved' = NoRetrieval
               /\ max_history' = env_max_history
               /\ history' = <<>>
               /\ appended' = <<>>
               /\ UNCHANGED <<call, succeeded>>
    /\ UNCHANGED <<storeVars, chunkVars, classifyVars>>

Raise(c) ==
    /\ call' = [c EXCEPT !.result = "error"]
    /\ pc' = "idle"
    /\ UNCHANGED succeeded

\* ingest_and_index_package(package), ingest.py lines 289-349
IngestAndIndexPackage ==
    /\ pc = "ingest"
    /\ \E world \in Worlds, embed_ok \in BOOLEAN :
          LET identifier == Identifier(package)
              db_dir == DbDir(identifier)
              c == [identifier |-> identifier,
                    existed |-> db_dir \in disk,
                    prior_success |-> identifier \in succeeded,
                    fetched |-> FALSE, n_files |-> 0, result |-> "none",
                    steps |-> <<>>,
                    before |-> IF db_dir \in disk THEN index[db_dir] ELSE <<>>]
          IN IF AlreadyIndexed(db_dir)
             THEN /\ call' = [c EXCEPT !.result = "skipped"]
                  /\ succeeded' = succeeded \cup {identifier}
                  /\ pc' = "loop"
                  /\ UNCHANGED storeVars
             ELSE IF ~world.ok
             THEN /\ Raise([c EXCEPT !.steps = <<"fetch">>])
                  /\ UNCHANGED storeVars
             ELSE LET package_dir ==
                          download_and_extract_package(package, TmpDir, world.entries)
                      fs == collect_text_files(
                                package_dir,
                                Under(SubSeq(package_dir, Len(TmpDir) + 1, Len(package_dir)),
                                      world.entries))
                      c1 == [c EXCEPT !.fetched = TRUE, !.n_files = Len(fs)]
                  IN IF NoFiles(fs)
                     THEN /\ Raise([c1 EXCEPT !.steps = <<"fetch", "classify">>])
                          /\ UNCHANGED storeVars
                     ELSE LET docs == Documents(fs)
                          IN IF embed_ok
                             THEN /\ CreateIndex(db_dir, WithIds(docs))
                                  /\ call' = [c1 EXCEPT
                                        !.result = "indexed",
                                        !.steps = <<"fetch", "classify", "chunk", "client", "add">>]
                                  /\ succeeded' = succeeded \cup {identifier}
                                  /\ pc' = "loop"
                             ELSE /\ CreateIndex(db_dir, <<>>)
                                  /\ Raise([c1 EXCEPT
                                        !.steps = <<"fetch", "classify", "chunk", "client">>])
    /\ UNCHANGED <<package, retrieved, convVars, chunkVars, classifyVars>>

\* one turn of the question loop, rag_bot.py lines 46-72, with
\* retrieve_relevant_chunks(question), retriever.py lines 17-35
AskQuestion ==
    /\ pc = "loop"
    /\ Len(appended) + 2 <= MaxMessages
    /\ \E question \in {"q"}, completion_ok \in BOOLEAN :
          LET latest == get_latest_package_name
              db_dir == <<".", "c", "h", "r", "o", "m", "a", "_">> \o latest[1]
          IN IF latest = <<>> \/ db_dir \notin disk
             THEN /\ pc' = "idle"
                  /\ UNCHANGED <<retrieved, convVars>>
             ELSE \E picked \in SUBSET (1..Len(index[db_dir])) :
                    /\ Cardinality(picked) = Min(DefaultK, Len(index[db_dir]))
                    /\ retrieved' = [asked |-> TRUE, db_dir |-> db_dir,
                                     documents |-> {index[db_dir][i].document : i \in picked}]
                    /\ LET user == [role |-> "user", content |-> question]
                           answer == [role |-> "assistant", content |-> "r"]
                           h1 == add_message(history, max_history, user)
                       IN IF completion_ok
                          THEN /\ history' = add_message(h1, max_history, answer)
                               /\ appended' = appended \o <<user, answer>>
                               /\ pc' = "loop"
                          ELSE /\ history' = h1
                               /\ appended' = Append(appended, user)
                               /\ pc' = "idle"
                    /\ UNCHANGED max_history
    /\ UNCHANGED <<package, call, succeeded, storeVars, chunkVars, classifyVars>>

\* the exit/quit sentinel, rag_bot.py lines 48-49
Quit ==
    /\ pc = "loop"
    /\ pc' = "idle"
    /\ UNCHANGED <<package, call, succeeded, retrieved, convVars, storeVars,
                   chunkVars, classifyVars>>

Next == RunMain \/ IngestAndIndexPackage \/ AskQuestion \/ Quit

Spec == Init /\ [][Next]_vars

\* ------------------------------------------------------------ ingestion claims
CallDir == DbDir(call.identifier)

\* C1: when ingest of an identifier that had no index fails, at whatever
\* step, the index directory of that identifier does not exist afterwards.
FailedIngestLeavesNoIndex ==
    (call.result = "error" /\ ~call.existed) => CallDir \notin disk

\* C2: once an ingest of an identifier has returned normally, a later ingest
\* of the same identifier performs no acquisition, classification, chunking,
\* client creation or commit, and leaves the persisted index as it was.
IngestIdempotent ==
    (call.result # "none" /\ call.prior_success) =>
        /\ call.result = "skipped"
        /\ call.steps = <<>>
        /\ CallDir \in disk
        /\ index[CallDir] = call.before

\* a second ingest of an identifier was skipped
SecondIngestSkipped ==
    /\ call.prior_success
    /\ call.result = "skipped"
    /\ index[CallDir] # <<>>

\* C3: an ingest of an identifier with no index whose acquired tree yields no
\* file raises before any vector-store client is created, and no index
\* exists for the identifier afterwards.
EmptyCorpusRaises ==
    (call.result # "none" /\ ~call.existed /\ call.fetched /\ call.n_files = 0) =>
        /\ call.result = "error"
        /\ \A i \in 1..Len(call.steps) : call.steps[i] \notin {"client", "add"}
        /\ CallDir \notin disk

\* an ingest raised on an empty corpus
EmptyCorpusRaised ==
    /\ call.result = "error"
    /\ ~call.existed
    /\ call.fetched
    /\ call.n_files = 0

\* every index directory holds the documents a completed ingestion committed
AllIndexesCommitted == \A d \in disk : index[d] # <<>>

\* C10: in a session started for package P, after any earlier ingestions of
\* other packages (none of which need have failed), every retrieval of the
\* question loop opens the index named by P's identifier.
RetrievesOwnIndex ==
    (pc = "loop" /\ retrieved.asked /\ AllIndexesCommitted) =>
        retrieved.db_dir = DbDir(Identifier(package))

====
